---- MODULE Spec2Model ----
(***************************************************************************)
(* Model of the rust_ansi escape-sequence decoder: the one-shot escape()   *)
(* function, the CSI/OSC parameter decoders and the streaming AnsiEscaper. *)
(*                                                                         *)
(* A Rust String is a sequence of Unicode code points (integers); a        *)
(* grapheme cluster (&str yielded by graphemes(false)) is a non-empty      *)
(* sequence of code points.  A panic (index out of bounds, unwrap on None) *)
(* is the command value Panic; no value is returned in that case.          *)
(***************************************************************************)
EXTENDS Integers, Sequences, FiniteSets, TLC

VARIABLES
    s,          \* the text snippet handed to escape()
    res,        \* what escape(s) returned: [cmd, len], or NoResult before the call
    graphemes,  \* AnsiEscaper.graphemes: the pending queue of clusters
    ret,        \* what the last parse_next() returned, NoResult after new_text
    fed,        \* every cluster handed to new_text so far, in feed order
    text,       \* the string both escapers of the comparison run are fed
    bulk,       \* an AnsiEscaper fed `text` with one new_text call
    drip,       \* an AnsiEscaper fed `text` one cluster at a time
    term,       \* a Term: its escaper's queue, where Term::write stands, what it was given
    sink        \* the TermInterface behind the Term: cursor and calls received

vars == <<s, res, graphemes, ret, fed, text, bulk, drip, term, sink>>

---------------------------------------------------------------------------
(* Code points the source names.                                           *)
ESC == 27
BEL == 7
SEMI == 59
QMARK == 63
GT == 62
PLUS == 43
LBRACKET == 91
RBRACKET == 93
BACKSLASH == 92
DIGIT0 == 48
DIGIT9 == 57

(* Final bytes and introducers, by letter. *)
Chr == [A |-> 65, B |-> 66, C |-> 67, D |-> 68, E |-> 69, F |-> 70, G |-> 71,
        H |-> 72, J |-> 74, K |-> 75, L |-> 76, N |-> 78, O |-> 79, P |-> 80,
        S |-> 83, T |-> 84, X |-> 88, c |-> 99, d |-> 100, f |-> 102,
        h |-> 104, l |-> 108, m |-> 109, r |-> 114, s |-> 115,
        star |-> 42, under |-> 95]

---------------------------------------------------------------------------
(* Strings, bytes and grapheme clusters.                                   *)

\* str::len of one code point: its UTF-8 length in bytes.
Utf8Len(c) == IF c < 128 THEN 1 ELSE IF c < 2048 THEN 2 ELSE IF c < 65536 THEN 3 ELSE 4

RECURSIVE StrLen(_)
\* str::len: the byte length of a string.
StrLen(str) == IF str = <<>> THEN 0 ELSE Utf8Len(Head(str)) + StrLen(Tail(str))

\* Grapheme_Cluster_Break = Control, CR or LF: always a cluster of its own.
IsControl(c) == c < 32 \/ c \in 127..159

\* Grapheme_Cluster_Break = Extend or ZWJ: combining marks U+0300..U+036F, ZWJ.
IsExtend(c) == c \in 768..879 \/ c = 8205

\* No cluster boundary between prev and c (UAX #29 GB3, GB4, GB5, GB9).
Glue(prev, c) == \/ prev = 13 /\ c = 10
                 \/ ~IsControl(prev) /\ IsExtend(c)

RECURSIVE Segment(_, _)
Segment(str, acc) ==
    IF str = <<>> THEN acc
    ELSE LET c == Head(str)
             n == Len(acc)
         IN  IF n > 0 /\ Glue(acc[n][Len(acc[n])], c)
             THEN Segment(Tail(str), [acc EXCEPT ![n] = Append(@, c)])
             ELSE Segment(Tail(str), Append(acc, <<c>>))

\* str.graphemes(false).collect(): the string split into grapheme clusters.
Graphemes(str) == Segment(str, <<>>)

---------------------------------------------------------------------------
(* AnsiType, CSIType and OSCType values.                                   *)

Text(str) == [type |-> "Text", s |-> str]
Unknown(fmt, arg) == [type |-> "Unknown", fmt |-> fmt, arg |-> arg]
Plain(t) == [type |-> t]
CSI(kind) == [type |-> "CSI", kind |-> kind]
OSC(kind) == [type |-> "OSC", kind |-> kind]
Incomplete == Plain("Incomplete")
ST == Plain("ST")
Panic == Plain("Panic")
NoResult == Plain("NoResult")

KindUnknown(fmt, arg) == [op |-> "Unknown", fmt |-> fmt, arg |-> arg]
Kind1(op, n) == [op |-> op, n |-> n]
Kind2(op, n, m) == [op |-> op, n |-> n, m |-> m]

\* A classification that takes every cluster it does not know for ST.
AnsiType_from_lenient(gr) ==
    CASE gr = <<LBRACKET>> -> CSI(KindUnknown("", <<>>))
      [] gr = <<RBRACKET>> -> OSC(KindUnknown("", <<>>))
      [] gr \in {<<Chr.N>>, <<Chr.O>>, <<Chr.P>>} -> Plain("DCS")
      [] OTHER -> ST

\* impl From<&str> for AnsiType
AnsiType_from(gr) ==
    CASE gr = <<Chr.N>> -> Plain("SS2")
      [] gr = <<Chr.O>> -> Plain("SS3")
      [] gr = <<Chr.P>> -> Plain("DCS")
      [] gr = <<LBRACKET>> -> CSI(KindUnknown("", <<>>))
      [] gr = <<BACKSLASH>> -> ST
      [] gr = <<RBRACKET>> -> OSC(KindUnknown("", <<>>))
      [] gr = <<Chr.X>> -> Plain("SOS")
      [] gr = <<Chr.star>> -> Plain("PM")
      [] gr = <<Chr.under>> -> Plain("APC")
      [] gr = <<Chr.c>> -> Plain("RIS")
      [] OTHER -> Unknown("Unknown ansi escape char: {}", gr)

\* A parameter range that does not tell CSI from OSC: both take 0x20-0x7F.
valid_char_ranges_wide(t) ==
    IF t.type \in {"CSI", "OSC"} THEN 32..127 ELSE {}

\* AnsiType::valid_char_ranges(t).0 : the bytes accumulated into a parameter.
valid_char_ranges(t) ==
    CASE t.type = "CSI" -> 32..63
      [] t.type = "OSC" -> 32..127
      [] OTHER -> {}

\* The end_char_range local of escape(): shadowed by the empty range 1..0.
end_char_range == {}

---------------------------------------------------------------------------
(* Parameter decoding.                                                     *)

RECURSIVE Decimal(_, _)
Decimal(digits, acc) ==
    IF digits = <<>> THEN acc
    ELSE Decimal(Tail(digits), 10 * acc + (Head(digits) - DIGIT0))

\* str::parse::<usize>(): an optional '+', then one or more decimal digits.
\* (The overflow error needs 20 digits and is beyond the fields modelled.)
parse_usize(field) ==
    LET digits == IF field # <<>> /\ Head(field) = PLUS THEN Tail(field) ELSE field
    IN  IF digits # <<>> /\ \A i \in 1..Len(digits) : digits[i] \in DIGIT0..DIGIT9
        THEN [ok |-> TRUE, val |-> Decimal(digits, 0)]
        ELSE [ok |-> FALSE, val |-> 0]

\* An SGR attribute list that skips the fields that do not parse.
sgr_args_dropping(args) ==
    LET parses(field) == parse_usize(field).ok
        kept == SelectSeq(Tail(args), parses)
    IN  [i \in 1..Len(kept) |-> parse_usize(kept[i]).val]

\* The SGR attribute list: args[1..] parsed one by one, 0 for an unparsable one.
sgr_args(args) ==
    [i \in 1..(Len(args) - 1) |->
        IF parse_usize(args[i + 1]).ok THEN parse_usize(args[i + 1]).val ELSE 0]

\* CSIType::from(gr, args) on a non-private parameter list.
CSI_public(gr, n, m, default, args) ==
    CASE gr = <<Chr.A>> -> Kind1("CUU", n)
      [] gr = <<Chr.B>> -> Kind1("CUD", n)
      [] gr = <<Chr.C>> -> Kind1("CUF", n)
      [] gr = <<Chr.D>> -> Kind1("CUB", n)
      [] gr = <<Chr.E>> -> Kind1("CNL", n)
      [] gr = <<Chr.F>> -> Kind1("CPL", n)
      [] gr = <<Chr.G>> -> Kind1("CHA", n)
      [] gr = <<Chr.d>> -> Kind1("CVA", n)
      [] gr = <<Chr.H>> -> Kind2("CUP", n, m)
      [] gr = <<Chr.J>> -> Kind1("ED", IF default THEN 0 ELSE n)
      [] gr = <<Chr.K>> -> Kind1("EL", IF default THEN 0 ELSE n)
      [] gr = <<Chr.L>> -> Kind1("IL", n)
      [] gr = <<Chr.S>> -> Kind1("SU", n)
      [] gr = <<Chr.T>> -> Kind1("SD", n)
      [] gr = <<Chr.f>> -> Kind2("CUP", n, m)
      [] gr = <<Chr.m>> -> Kind2("SGR", IF default THEN 0 ELSE n, sgr_args(args))
      [] gr = <<Chr.r>> -> Kind2("DECSTBM", n, m)
      [] gr = <<Chr.s>> -> Kind2("DECSLRM", n, m)
      [] OTHER -> KindUnknown("Unknown CSI command: {}", gr)

\* CSIType::from(gr, args) on a private parameter list (leading '?' removed).
CSI_private(gr, n) ==
    IF n = 25
    THEN CASE gr = <<Chr.h>> -> [op |-> "DECTCEM", h |-> TRUE]
           [] gr = <<Chr.l>> -> [op |-> "DECTCEM", h |-> FALSE]
           [] OTHER -> KindUnknown("Unknown Private CSI command: {}{}", <<n>> \o gr)
    ELSE KindUnknown("Unknown Private CSI command: {}", <<n>>)

\* A private-mode detector that never fires.
never_private(_args) == FALSE

\* CSIType::from, the private flag: args[0] starts with '?'.
is_private(_args) == _args[1] # <<>> /\ Head(_args[1]) = QMARK

\* A first parameter that falls back to 0 where the code falls back to 1.
first_param_zero(args) ==
    LET first_arg_result == parse_usize(args[1])
    IN  IF first_arg_result.ok THEN [n |-> first_arg_result.val, default |-> FALSE]
        ELSE [n |-> 0, default |-> TRUE]

\* CSIType::from, n and default: args[0] parsed, 1 and the default flag on failure.
first_param(args) ==
    LET first_arg_result == parse_usize(args[1])
    IN  IF first_arg_result.ok THEN [n |-> first_arg_result.val, default |-> FALSE]
        ELSE [n |-> 1, default |-> TRUE]

\* CSIType::from, m: args[1] parsed, 1 when absent or unparsable.
second_param(args) ==
    IF Len(args) > 1 /\ parse_usize(args[2]).ok THEN parse_usize(args[2]).val ELSE 1

\* A CSIType::from that gives final byte f an operation of its own, HVP.
CSIType_from_hvp(gr, _args) ==
    IF _args = <<>> THEN Panic
    ELSE LET private == is_private(_args)
             args == IF private THEN [_args EXCEPT ![1] = Tail(@)] ELSE _args
             first == first_param(args)
         IN  IF private THEN CSI_private(gr, first.n)
             ELSE IF gr = <<Chr.f>> THEN Kind2("HVP", first.n, second_param(args))
             ELSE CSI_public(gr, first.n, second_param(args), first.default, args)

\* CSIType::from: args[0] panics on an empty list.
CSIType_from(gr, _args) ==
    IF _args = <<>> THEN Panic
    ELSE LET private == is_private(_args)
             args == IF private THEN [_args EXCEPT ![1] = Tail(@)] ELSE _args
             first == first_param(args)
         IN  IF ~private
             THEN CSI_public(gr, first.n, second_param(args), first.default, args)
             ELSE CSI_private(gr, first.n)

\* OSCType::from: args[0] panics on an empty list, args[1] on a one-field list.
OSCType_from(gr, args) ==
    IF args = <<>> THEN Panic
    ELSE IF args[1] = <<DIGIT0>>
         THEN IF Len(args) < 2 THEN Panic
              ELSE [op |-> "WindowTitle", title |-> args[2]]
         ELSE KindUnknown("Unknown OSC command: {:?}", gr)

\* AnsiType::finish
finish(gr, t, args) ==
    CASE t.type = "CSI" ->
            LET kind == CSIType_from(gr, args)
            IN  IF kind = Panic THEN Panic ELSE CSI(kind)
      [] t.type = "OSC" ->
            LET kind == OSCType_from(gr, args)
            IN  IF kind = Panic THEN Panic ELSE OSC(kind)
      [] t.type \in {"Unknown", "Text"} -> t
      [] OTHER -> ST

---------------------------------------------------------------------------
(* The one-shot entry point.                                               *)

RECURSIVE read_loop(_)
read_loop(gs) ==
    IF gs = <<>> \/ Head(gs) = <<ESC>> THEN <<>>
    ELSE Head(gs) \o read_loop(Tail(gs))

\* read_until_escape_char: the clusters before the first ESC, concatenated.
read_until_escape_char(str) == read_loop(Graphemes(str))

\* A (command, consumed length) pair; a panic returns nothing.
Pair(cmd, len) == IF cmd = Panic THEN [cmd |-> Panic, len |-> 0]
                  ELSE [cmd |-> cmd, len |-> len]

\* A length guard that lets a two-cluster snippet through.
too_short_by_one(gs) == Len(gs) < 2

\* escape(), `graphemes.len() < 3`: ESC and an introducer with nothing after.
too_short(gs) == Len(gs) < 3

RECURSIVE escape(_)
RECURSIVE scan(_, _, _, _, _, _, _)

\* The for loop of escape() from cluster i (1-based) on.
scan(gs, t, i, arguments, curr_arg, escaping, ansi_string) ==
    IF i > Len(gs) THEN Pair(Incomplete, 0)
    ELSE LET grapheme == gs[i] IN
      IF StrLen(grapheme) > 1 THEN Pair(Unknown("", <<>>), 0)
      ELSE IF grapheme = <<ESC>> \/ escaping
      THEN LET nested == ansi_string \o grapheme
               r == escape(nested)
           IN  IF r.cmd = Panic THEN r
               ELSE IF r.len > 0
               THEN IF r.cmd = ST
                    THEN Pair(finish(<<BEL>>, t, arguments), i)
                    ELSE scan(gs, t, i + 1, arguments, curr_arg, FALSE, nested)
               ELSE scan(gs, t, i + 1, arguments, curr_arg, TRUE, nested)
      ELSE IF grapheme = <<SEMI>>
      THEN scan(gs, t, i + 1, Append(arguments, curr_arg), <<>>, escaping, ansi_string)
      ELSE LET ch == grapheme[1] IN
           IF ch \in valid_char_ranges(t)
           THEN scan(gs, t, i + 1, arguments, Append(curr_arg, ch), escaping, ansi_string)
           ELSE IF ch \in end_char_range
           THEN Pair(finish(grapheme, t, Append(arguments, curr_arg)), i)
           ELSE Pair(finish(grapheme, t, Append(arguments, curr_arg)), i)

\* escape(s): the first command of the snippet and how much of it it occupies.
escape(str) ==
    LET gs == Graphemes(str) IN
    IF Len(gs) = 0 THEN Pair(Incomplete, 0)
    ELSE IF Len(gs) < 2 \/ gs[1] # <<ESC>>
    THEN LET string == read_until_escape_char(str)
         IN  Pair(Text(string), StrLen(string))
    ELSE IF gs[2] = <<GT>>
    THEN Pair(Unknown("I do not know how to handle '>'", <<>>), 2)
    ELSE IF too_short(gs) THEN Pair(Incomplete, 0)
    ELSE LET t == AnsiType_from(gs[2]) IN
         IF t.type = "Unknown" THEN Pair(t, 2)
         ELSE scan(gs, t, 3, <<>>, <<>>, FALSE, <<>>)

---------------------------------------------------------------------------
(* The streaming parser, as functions of the pending queue.                *)

\* A new_text that puts the clusters of the chunk ahead of the queue.
new_text_front(queue, str) == Graphemes(str) \o queue

\* AnsiEscaper::new_text: the clusters of the chunk, pushed at the back.
new_text(queue, str) == queue \o Graphemes(str)

\* AnsiEscaper::next_grapheme: pop the front cluster, None on an empty queue.
next_grapheme(queue) ==
    IF queue = <<>> THEN [some |-> FALSE, gr |-> <<>>, queue |-> queue]
    ELSE [some |-> TRUE, gr |-> Head(queue), queue |-> Tail(queue)]

\* AnsiEscaper::parse: drop ESC, pop and classify the introducer (unwrap panics
\* on None), discard the classification, report Incomplete.
parse(queue) ==
    LET q1 == IF queue # <<>> /\ Head(queue) = <<ESC>> THEN Tail(queue) ELSE queue
        popped == next_grapheme(q1)
    IN  IF ~popped.some THEN [ret |-> Panic, queue |-> popped.queue]
        ELSE LET ansi_type == AnsiType_from(popped.gr)
             IN  [ret |-> Incomplete, queue |-> popped.queue]

RECURSIVE parse_loop(_, _)
\* The while loop of parse_next with `string` accumulated so far.
parse_loop(queue, string) ==
    IF queue = <<>> THEN [ret |-> Incomplete, queue |-> queue]
    ELSE IF Head(queue) = <<ESC>>
         THEN IF string = <<>> THEN parse(queue)
              ELSE [ret |-> Text(string), queue |-> queue]
         ELSE parse_loop(Tail(queue), string \o Head(queue))

\* A parse_next that hands the queue to parse() without looking at it.
parse_next_eager(queue) == parse(queue)

\* A parse_next that answers for the front cluster without removing it.
parse_next_peek(queue) ==
    IF queue = <<>> THEN [ret |-> Incomplete, queue |-> queue]
    ELSE [ret |-> ST, queue |-> queue]

\* AnsiEscaper::parse_next: the returned command and the queue it leaves.
parse_next(queue) == parse_loop(queue, <<>>)

---------------------------------------------------------------------------
(* Bounds and the inputs drawn within them.                                *)

MaxParams == 3   \* bytes of a CSI parameter block
MaxBody == 3     \* bytes of an OSC body
MaxAny == 3      \* length of an unstructured snippet
MaxChunk == 2    \* code points of one new_text chunk
MaxFed == 3      \* clusters fed to one AnsiEscaper in all
MaxText == 4     \* code points of the text of the comparison run
MaxCoord == 3    \* columns and rows of the screen behind the sink
MaxCalls == 2    \* calls made on the sink directly
MaxWritten == 3  \* clusters handed to one Term in all
MaxWrite == 3    \* code points of one Term::write chunk

RECURSIVE SeqsOf(_, _)
\* Every sequence over `chars` of length at most n.
SeqsOf(chars, n) ==
    IF n = 0 THEN {<<>>}
    ELSE LET shorter == SeqsOf(chars, n - 1)
         IN  shorter \cup {Append(q, c) : q \in shorter, c \in chars}

\* '?', ';', '2', '5', '+'
ParamChars == {QMARK, SEMI, 50, 53, PLUS}

\* Every final byte CSIType::from names, 'z' and DEL.
FinalChars == {Chr.A, Chr.B, Chr.C, Chr.D, Chr.E, Chr.F, Chr.G, Chr.d, Chr.H,
               Chr.J, Chr.K, Chr.L, Chr.S, Chr.T, Chr.f, Chr.m, Chr.r, Chr.s,
               Chr.h, Chr.l, 122, 127}

\* '0', '1', ';', 'T'
BodyChars == {DIGIT0, 49, SEMI, 84}

\* What follows a sequence: nothing, 'x', ';', or U+0301 COMBINING ACUTE ACCENT.
Trailing == {<<>>, <<120>>, <<SEMI>>, <<769>>}

\* ESC [ ] \ BEL ; > N m a 0, U+00E9 (two bytes), U+0301 (combining).
AnyChars == {ESC, LBRACKET, RBRACKET, BACKSLASH, BEL, SEMI, GT, Chr.N, Chr.m,
             97, DIGIT0, 233, 769}

\* ESC [ a, U+0301
StreamChars == {ESC, LBRACKET, 97, 769}

CsiInputs ==
    {<<ESC, LBRACKET>> \o p \o <<f>> \o t :
        p \in SeqsOf(ParamChars, MaxParams), f \in FinalChars, t \in Trailing}

CsiPrefixes == {<<ESC, LBRACKET>> \o p : p \in SeqsOf(ParamChars, MaxParams)}

OscInputs ==
    {<<ESC, RBRACKET>> \o b \o e \o t :
        b \in SeqsOf(BodyChars, MaxBody),
        e \in {<<BEL>>, <<ESC, BACKSLASH>>, <<1>>}, t \in Trailing}

OscPrefixes ==
    {<<ESC, RBRACKET>> \o b \o e :
        b \in SeqsOf(BodyChars, MaxBody), e \in {<<>>, <<ESC>>}}

\* The ten introducers impl From<&str> for AnsiType names.
Introducers == {Chr.N, Chr.O, Chr.P, LBRACKET, BACKSLASH, RBRACKET, Chr.X,
                Chr.star, Chr.under, Chr.c}

\* ESC, an introducer or 'm', '>', U+00E9, and what follows it.
IntroInputs ==
    {<<ESC, c>> \o t :
        c \in Introducers \cup {Chr.m, GT, 233}, t \in Trailing \cup {<<ESC>>, <<120, 120>>}}

\* "\x1B[1;1H hello", the snippet of tests::simple_color.
SimpleColor == <<ESC, LBRACKET, 49, SEMI, 49, Chr.H, 32, 104, 101, 108, 108, 111>>

\* "hello\x1B[", plain text ahead of a sequence.
HelloEsc == <<104, 101, 108, 108, 111, ESC, LBRACKET>>

Inputs == CsiInputs \cup CsiPrefixes \cup OscInputs \cup OscPrefixes
          \cup SeqsOf(AnyChars, MaxAny) \cup IntroInputs \cup {SimpleColor, HelloEsc}

Idle == [graphemes |-> <<>>, out |-> <<>>, pos |-> 0, pc |-> "feed"]

\* A sink with its cursor at the top left (1,1) that has received no call.
NewSink == [x |-> 1, y |-> 1, log |-> <<>>]

\* Term::new: an empty escaper; Term::write has not been entered and nothing
\* was written (fed keeps every cluster handed to write, in order).
NewTerm == [graphemes |-> <<>>, pc |-> "idle", fed |-> <<>>]

---------------------------------------------------------------------------
(* The one-shot decoder applied to a snippet.                              *)

InitEscape ==
    /\ s \in Inputs
    /\ res = NoResult
    /\ graphemes = <<>> /\ ret = NoResult /\ fed = <<>>
    /\ text = <<>> /\ bulk = Idle /\ drip = Idle
    /\ term = NewTerm /\ sink = NewSink

Escape ==
    /\ res = NoResult
    /\ res' = escape(s)
    /\ UNCHANGED <<s, graphemes, ret, fed, text, bulk, drip, term, sink>>

NextEscape == Escape

SpecEscape == InitEscape /\ [][NextEscape]_vars

---------------------------------------------------------------------------
(* One AnsiEscaper driven by new_text and parse_next in any order.         *)

Init ==
    /\ s = <<>> /\ res = NoResult
    /\ graphemes = <<>> /\ ret = NoResult /\ fed = <<>>
    /\ text = <<>> /\ bulk = Idle /\ drip = Idle
    /\ term = NewTerm /\ sink = NewSink

NewText ==
    /\ ret # Panic
    /\ \E str \in SeqsOf(StreamChars, MaxChunk) :
        /\ Len(fed) + Len(Graphemes(str)) <= MaxFed
        /\ graphemes' = new_text(graphemes, str)
        /\ fed' = fed \o Graphemes(str)
    /\ ret' = NoResult
    /\ UNCHANGED <<s, res, text, bulk, drip, term, sink>>

ParseNext ==
    /\ ret # Panic
    /\ LET r == parse_next(graphemes)
       IN  graphemes' = r.queue /\ ret' = r.ret
    /\ UNCHANGED <<s, res, fed, text, bulk, drip, term, sink>>

Next == NewText \/ ParseNext

Spec == Init /\ [][Next]_vars

---------------------------------------------------------------------------
(* Two AnsiEscapers fed the same text: at once, and cluster by cluster.    *)

InitCompare ==
    /\ s = <<>> /\ res = NoResult
    /\ graphemes = <<>> /\ ret = NoResult /\ fed = <<>>
    /\ text \in SeqsOf(StreamChars, MaxText)
    /\ bulk = Idle /\ drip = Idle
    /\ term = NewTerm /\ sink = NewSink

\* One parse_next call of an escaper whose commands are collected in `out`.
Step(e, after) ==
    LET r == parse_next(e.graphemes)
    IN  [e EXCEPT !.graphemes = r.queue,
                  !.out = IF r.ret \in {Incomplete, Panic} THEN @ ELSE Append(@, r.ret),
                  !.pc = CASE r.ret = Panic -> "panic"
                           [] r.ret = Incomplete -> after
                           [] OTHER -> @]

BulkFeed ==
    /\ bulk.pc = "feed"
    /\ bulk' = [bulk EXCEPT !.graphemes = new_text(@, text), !.pc = "next"]
    /\ UNCHANGED <<s, res, graphemes, ret, fed, text, drip, term, sink>>

BulkNext ==
    /\ bulk.pc = "next"
    /\ bulk' = Step(bulk, "done")
    /\ UNCHANGED <<s, res, graphemes, ret, fed, text, drip, term, sink>>

DripFeed ==
    /\ drip.pc = "feed"
    /\ drip.pos < Len(Graphemes(text))
    /\ drip' = [drip EXCEPT !.graphemes = new_text(@, Graphemes(text)[drip.pos + 1]),
                            !.pos = @ + 1, !.pc = "next"]
    /\ UNCHANGED <<s, res, graphemes, ret, fed, text, bulk, term, sink>>

DripNext ==
    /\ drip.pc = "next"
    /\ drip' = [Step(drip, "feed") EXCEPT !.pc = IF @ = "next" THEN "feed" ELSE @]
    /\ UNCHANGED <<s, res, graphemes, ret, fed, text, bulk, term, sink>>

NextCompare == BulkFeed \/ BulkNext \/ DripFeed \/ DripNext

SpecCompare == InitCompare /\ [][NextCompare]_vars

---------------------------------------------------------------------------
(* TermInterface: the four cursor primitives an implementer supplies, here *)
(* a sink that keeps its cursor, and the default methods built on them.    *)

\* A call Term::write or a caller makes on the sink: the method and its arguments.
Call(k, method, args) == [k EXCEPT !.log = Append(@, [method |-> method, args |-> args])]

goto_x(k, x) == [k EXCEPT !.x = x]
goto_y(k, y) == [k EXCEPT !.y = y]
move_x(k, x) == [k EXCEPT !.x = @ + x]
move_y(k, y) == [k EXCEPT !.y = @ + y]

goto(k, x, y) == goto_y(goto_x(k, x), y)
goto_rel(k, x, y) == move_y(move_x(k, x), y)

cursor_up(k, n) == goto_rel(k, 0, 0 - n)
cursor_down(k, n) == goto_rel(k, 0, n)
cursor_forward(k, n) == goto_rel(k, n, 0)
cursor_back(k, n) == goto_rel(k, 0 - n, 0)
cursor_next_line(k, n) == move_y(goto_x(k, 1), n)
cursor_prev_line(k, n) == move_y(goto_x(k, 1), 0 - n)

cursor_horizontal_absolute(k, n) == goto_y(k, n)
cursor_vertical_absolute(k, n) == goto_x(k, n)
cursor_position(k, n, m) == goto(k, n, m)
horizontal_vertical_position(k, n, m) == goto(k, n, m)

\* The default methods that take one count, by name.
Default1(k, method, n) ==
    CASE method = "cursor_up" -> cursor_up(k, n)
      [] method = "cursor_down" -> cursor_down(k, n)
      [] method = "cursor_forward" -> cursor_forward(k, n)
      [] method = "cursor_back" -> cursor_back(k, n)
      [] method = "cursor_next_line" -> cursor_next_line(k, n)
      [] method = "cursor_prev_line" -> cursor_prev_line(k, n)
      [] method = "cursor_horizontal_absolute" -> cursor_horizontal_absolute(k, n)
      [] method = "cursor_vertical_absolute" -> cursor_vertical_absolute(k, n)

\* The default methods that take a pair, by name.
Default2(k, method, n, m) ==
    CASE method = "cursor_position" -> cursor_position(k, n, m)
      [] method = "horizontal_vertical_position" -> horizontal_vertical_position(k, n, m)

Methods1 == {"cursor_up", "cursor_down", "cursor_forward", "cursor_back",
             "cursor_next_line", "cursor_prev_line",
             "cursor_horizontal_absolute", "cursor_vertical_absolute"}
Methods2 == {"cursor_position", "horizontal_vertical_position"}

\* The method Term::write calls for each CSI kind.
CsiMethod ==
    [CUU |-> "cursor_up", CUD |-> "cursor_down", CUF |-> "cursor_forward",
     CUB |-> "cursor_back", CNL |-> "cursor_next_line", CPL |-> "cursor_prev_line",
     CHA |-> "cursor_horizontal_absolute", CVA |-> "cursor_vertical_absolute",
     CUP |-> "cursor_position", ED |-> "erase_in_display", EL |-> "erase_in_line",
     SU |-> "scroll_up", SD |-> "scroll_down", IL |-> "il",
     HVP |-> "horizontal_vertical_position", SGR |-> "select_graphics_rendition",
     DECSTBM |-> "decstbm", DECSLRM |-> "decslrm", DECTCEM |-> "dectcem",
     Unknown |-> "unknown_csi"]

\* The match of Term::write on the kind of a CSI command.
dispatch_csi(k, kind) ==
    LET method == CsiMethod[kind.op] IN
    CASE method \in Methods1 -> Default1(Call(k, method, <<kind.n>>), method, kind.n)
      [] method \in Methods2 ->
            Default2(Call(k, method, <<kind.n, kind.m>>), method, kind.n, kind.m)
      [] method = "select_graphics_rendition" -> Call(k, method, <<kind.m>>)
      [] method \in {"decstbm", "decslrm"} -> Call(k, method, <<kind.n, kind.m>>)
      [] method = "dectcem" -> Call(k, method, <<kind.h>>)
      [] method = "unknown_csi" -> Call(k, method, <<kind.arg>>)
      [] OTHER -> Call(k, method, <<kind.n>>)

\* The match of Term::write on the command parse_next returned.
dispatch(k, ansi) ==
    CASE ansi.type = "Text" -> Call(k, "write", <<ansi.s>>)
      [] ansi.type = "CSI" -> dispatch_csi(k, ansi.kind)
      [] ansi.type = "OSC" ->
            IF ansi.kind.op = "WindowTitle" THEN Call(k, "set_title", <<ansi.kind.title>>)
            ELSE Call(k, "unknown_osc", <<ansi.kind.arg>>)
      [] ansi.type = "Unknown" -> Call(k, "unknown", <<ansi.arg>>)
      [] OTHER -> k

---------------------------------------------------------------------------
(* The default methods called on a sink directly.                          *)

InitSink ==
    /\ s = <<>> /\ res = NoResult
    /\ graphemes = <<>> /\ ret = NoResult /\ fed = <<>>
    /\ text = <<>> /\ bulk = Idle /\ drip = Idle
    /\ term = NewTerm /\ sink = NewSink

OnScreen(k) == k.x \in 1..MaxCoord /\ k.y \in 1..MaxCoord

SinkCall1 ==
    /\ Len(sink.log) < MaxCalls
    /\ \E method \in Methods1, n \in 1..MaxCoord :
        /\ OnScreen(Default1(sink, method, n))
        /\ sink' = Default1(Call(sink, method, <<n>>), method, n)
    /\ UNCHANGED <<s, res, graphemes, ret, fed, text, bulk, drip, term>>

SinkCall2 ==
    /\ Len(sink.log) < MaxCalls
    /\ \E method \in Methods2, n \in 1..MaxCoord, m \in 1..MaxCoord :
        sink' = Default2(Call(sink, method, <<n, m>>), method, n, m)
    /\ UNCHANGED <<s, res, graphemes, ret, fed, text, bulk, drip, term>>

NextSink == SinkCall1 \/ SinkCall2

SpecSink == InitSink /\ [][NextSink]_vars

---------------------------------------------------------------------------
(* Term::write: feed the chunk, then parse_next and dispatch until         *)
(* Incomplete.                                                             *)

InitTerm == InitSink

\* Term::write up to its loop: self.escaper.new_text(s).
TermWrite ==
    /\ term.pc = "idle"
    /\ \E str \in SeqsOf(StreamChars, MaxWrite) :
        /\ Len(term.fed) + Len(Graphemes(str)) <= MaxWritten
        /\ term' = [term EXCEPT !.graphemes = new_text(@, str),
                                !.fed = @ \o Graphemes(str),
                                !.pc = "loop"]
    /\ UNCHANGED <<s, res, graphemes, ret, fed, text, bulk, drip, sink>>

\* One iteration of the loop of Term::write.
TermLoop ==
    /\ term.pc = "loop"
    /\ LET r == parse_next(term.graphemes)
       IN  /\ term' = [term EXCEPT !.graphemes = r.queue,
                                   !.pc = CASE r.ret = Panic -> "panic"
                                            [] r.ret = Incomplete -> "idle"
                                            [] OTHER -> "loop"]
           /\ sink' = IF r.ret = Panic THEN sink ELSE dispatch(sink, r.ret)
    /\ UNCHANGED <<s, res, graphemes, ret, fed, text, bulk, drip>>

NextTerm == TermWrite \/ TermLoop

SpecTerm == InitTerm /\ [][NextTerm]_vars

\* The loop runs in the caller's thread with nothing to wait for: an
\* iteration that can run does run.
SpecTermLive == SpecTerm /\ WF_vars(TermLoop)

---------------------------------------------------------------------------
(* The vocabulary of the claims: sequences as the grammar writes them,     *)
(* read off the snippet itself and not off the decoder.                    *)

Called == res # NoResult
Returned == Called /\ res.cmd # Panic

RECURSIVE FirstOutside(_, _, _)
\* The first position from k on whose byte is not in `range`; 0 if there is none.
FirstOutside(str, k, range) ==
    IF k > Len(str) THEN 0
    ELSE IF str[k] \notin range THEN k
    ELSE FirstOutside(str, k + 1, range)

\* Position of the final byte of the CSI sequence str begins with.
CsiLen(str) == FirstOutside(str, 3, 32..63)

\* str is ESC [ <params 0x20-0x3F> <final 0x40-0x7F> and whatever follows.
IsCsiSequence(str) ==
    /\ Len(str) >= 3 /\ str[1] = ESC /\ str[2] = LBRACKET
    /\ CsiLen(str) > 0 /\ str[CsiLen(str)] \in 64..127

\* Position at which the body of the OSC sequence str begins with stops.
OscStop(str) == FirstOutside(str, 3, 32..127)

\* str is ESC ] <body 0x20-0x7F> BEL and whatever follows.
IsOscBel(str) ==
    /\ Len(str) >= 3 /\ str[1] = ESC /\ str[2] = RBRACKET
    /\ OscStop(str) > 0 /\ str[OscStop(str)] = BEL

\* str is ESC ] <body 0x20-0x7F> ESC \ and whatever follows.
IsOscSt(str) ==
    /\ Len(str) >= 4 /\ str[1] = ESC /\ str[2] = RBRACKET
    /\ OscStop(str) > 0 /\ str[OscStop(str)] = ESC
    /\ Len(str) > OscStop(str) /\ str[OscStop(str) + 1] = BACKSLASH

\* str is a proper prefix of a complete CSI sequence, or of a complete OSC
\* sequence ended by BEL or by ESC \.
IsProperPrefix(str) ==
    \/ str \in {<<>>, <<ESC>>}
    \/ /\ Len(str) >= 2 /\ str[1] = ESC /\ str[2] = LBRACKET
       /\ CsiLen(str) = 0
    \/ /\ Len(str) >= 2 /\ str[1] = ESC /\ str[2] = RBRACKET
       /\ \/ OscStop(str) = 0
          \/ OscStop(str) = Len(str) /\ str[Len(str)] = ESC

\* The byte after the sequence ending at k, if any, is ASCII.
AsciiAfter(str, k) == Len(str) = k \/ str[k + 1] < 128

RECURSIVE SplitFields(_)
\* The semicolon-delimited fields of a parameter block (always at least one).
SplitFields(block) ==
    IF block = <<>> THEN << <<>> >>
    ELSE LET front == SplitFields(SubSeq(block, 1, Len(block) - 1))
             c == block[Len(block)]
         IN  IF c = SEMI THEN Append(front, <<>>)
             ELSE [front EXCEPT ![Len(front)] = Append(@, c)]

\* The field is an unsigned decimal numeral, with or without a leading '+'.
IsNumber(field) ==
    LET d == IF field # <<>> /\ field[1] = PLUS THEN Tail(field) ELSE field
    IN  d # <<>> /\ \A i \in 1..Len(d) : d[i] \in DIGIT0..DIGIT9

RECURSIVE NumberOf(_)
\* The value of a numeral.
NumberOf(field) ==
    IF field = <<>> THEN 0
    ELSE IF field[Len(field)] = PLUS THEN 0
    ELSE 10 * NumberOf(SubSeq(field, 1, Len(field) - 1)) + (field[Len(field)] - DIGIT0)

\* A field's value, or `dflt` when it is missing or no numeral.
ValueOr(fields, j, dflt) ==
    IF j <= Len(fields) /\ IsNumber(fields[j]) THEN NumberOf(fields[j]) ELSE dflt

\* Final bytes of the non-private operations that carry a first parameter n.
OpFinals == {Chr.A, Chr.B, Chr.C, Chr.D, Chr.E, Chr.F, Chr.G, Chr.d, Chr.H,
             Chr.J, Chr.K, Chr.L, Chr.S, Chr.T, Chr.f, Chr.m, Chr.r, Chr.s}

\* Final bytes of cursor-position and of the margin operations.
TwoParamFinals == {Chr.H, Chr.f, Chr.r, Chr.s}

\* The CSI parameter defaults hold of the result, `zeroed` being the final
\* bytes whose first parameter defaults to 0.
DefaultsHold(zeroed) ==
    (Called /\ IsCsiSequence(s) /\ AsciiAfter(s, CsiLen(s)) /\ s[3] # QMARK
       /\ s[CsiLen(s)] \in OpFinals)
    => LET fields == SplitFields(SubSeq(s, 3, CsiLen(s) - 1))
           final == s[CsiLen(s)]
       IN  /\ res.cmd.type = "CSI"
           /\ res.cmd.kind.n = ValueOr(fields, 1, IF final \in zeroed THEN 0 ELSE 1)
           /\ final \in TwoParamFinals => res.cmd.kind.m = ValueOr(fields, 2, 1)

---------------------------------------------------------------------------
(* The claims.                                                             *)

\* C1: escape() on a complete CSI sequence followed by arbitrary trailing
\* text returns a CSI command and the length of the sequence itself, the
\* same pair it returns for the sequence alone; ESC [ 2 J gives
\* erase-in-display(2) with length 4.
C1_CsiConsumesItself ==
    (Called /\ IsCsiSequence(s))
    => /\ res.cmd.type = "CSI"
       /\ res.len = CsiLen(s)
       /\ res = escape(SubSeq(s, 1, CsiLen(s)))
       /\ (CsiLen(s) = 4 /\ s[3] = 50 /\ s[4] = Chr.J)
            => res = [cmd |-> CSI(Kind1("ED", 2)), len |-> 4]

\* C2: every proper prefix of a complete CSI or OSC sequence, the prefix that
\* is only ESC included, decodes to Incomplete with consumed length 0.
C2_PrefixIsIncomplete ==
    (Called /\ IsProperPrefix(s)) => res = [cmd |-> Incomplete, len |-> 0]

\* C3: feeding the text with one new_text call and calling parse_next until
\* Incomplete yields the same commands as feeding it cluster by cluster with
\* a parse_next attempt after each feed.
C3_SameCommands ==
    bulk.pc = "done"
    => /\ drip.pc # "panic"
       /\ (drip.pc = "feed" /\ drip.pos = Len(Graphemes(text))) => drip.out = bulk.out

\* C4: a parse_next call that returns Incomplete leaves the pending queue
\* exactly as it was.
C4_IncompleteKeepsQueue == [][ret' = Incomplete => graphemes' = graphemes]_vars

\* C5: escape() returns a (command, length) pair for every input and never
\* aborts on a parameter field that is not there.
C5_NeverAborts == Called => res.cmd # Panic

\* C6: the consumed length escape() reports is 0 exactly when the command is
\* Incomplete.
C6_ZeroIffIncomplete == Returned => (res.len = 0 <=> res.cmd = Incomplete)

\* C7 as stated: a missing or non-numeric first parameter decodes to 1 for
\* every non-private operation but J and K, to 0 for J and K; a missing or
\* non-numeric second parameter decodes to 1; a numeral is passed through.
C7_DefaultsAsStated == DefaultsHold({Chr.J, Chr.K})

\* C7 amended: a missing or unparsable first parameter decodes to 1 for every
\* non-private operation but J, K and SGR (m), to 0 for J, K and m; a missing
\* or unparsable second parameter of H, f, r, s decodes to 1; a parameter that
\* parses is passed through unchanged.
C7_Defaults == DefaultsHold({Chr.J, Chr.K, Chr.m})

\* ESC [ m was decoded: SGR with the first parameter defaulted to 0.
C7_Witness ==
    /\ Called /\ s = <<ESC, LBRACKET, Chr.m>>
    /\ res.cmd = CSI(Kind2("SGR", 0, <<>>))

\* C8: a CSI sequence whose parameter block begins with '?' decodes to
\* cursor-visible(true) for n = 25 and final h, cursor-visible(false) for
\* n = 25 and final l, and to the CSI Unknown diagnostic for every other n
\* and final byte: never to a non-private operation.
C8_PrivateMode ==
    (Called /\ IsCsiSequence(s) /\ AsciiAfter(s, CsiLen(s)) /\ s[3] = QMARK)
    => LET fields == SplitFields(SubSeq(s, 4, CsiLen(s) - 1))
           is25 == IsNumber(fields[1]) /\ NumberOf(fields[1]) = 25
           final == s[CsiLen(s)]
       IN  /\ res.cmd.type = "CSI"
           /\ IF is25 /\ final \in {Chr.h, Chr.l}
              THEN res.cmd.kind = [op |-> "DECTCEM", h |-> (final = Chr.h)]
              ELSE res.cmd.kind.op = "Unknown"

\* ESC [ ? 2 5 l was decoded: the cursor is hidden.
C8_Witness ==
    /\ Called /\ s = <<ESC, LBRACKET, QMARK, 50, 53, Chr.l>>
    /\ res.cmd = CSI([op |-> "DECTCEM", h |-> FALSE])

\* C9: ESC ] 0 ; <title> BEL decodes to WindowTitle(<title>), the title being
\* the second field, with the length of the sequence through BEL; a first
\* field other than "0" decodes to OSC Unknown carrying the raw OSC body.
C9_OscBel ==
    (Called /\ IsOscBel(s))
    => LET body == SubSeq(s, 3, OscStop(s) - 1)
           fields == SplitFields(body)
       IN  /\ (fields[1] = <<DIGIT0>> /\ Len(fields) >= 2)
                => res = [cmd |-> OSC([op |-> "WindowTitle", title |-> fields[2]]),
                          len |-> OscStop(s)]
           /\ fields[1] # <<DIGIT0>>
                => /\ res.cmd.type = "OSC" /\ res.len = OscStop(s)
                   /\ res.cmd.kind.op = "Unknown"
                   /\ res.cmd.kind.arg = body

\* C10: ESC ] 0 ; <title> ESC \ <trailing> returns the command of the
\* BEL-terminated form, WindowTitle(<title>), and a length ending at the
\* backslash, whatever follows it or nothing.
C10_OscStringTerminator ==
    (Called /\ IsOscSt(s))
    => LET body == SubSeq(s, 3, OscStop(s) - 1)
           fields == SplitFields(body)
       IN  (fields[1] = <<DIGIT0>> /\ Len(fields) >= 2)
           => /\ res.cmd = OSC([op |-> "WindowTitle", title |-> fields[2]])
              /\ res.cmd = escape(Append(SubSeq(s, 1, OscStop(s) - 1), BEL)).cmd
              /\ res.len = OscStop(s) + 1

RECURSIVE RunBeforeEsc(_)
\* The code points of str before its first ESC (all of it when it has none).
RunBeforeEsc(str) ==
    IF str = <<>> \/ Head(str) = ESC THEN <<>>
    ELSE <<Head(str)>> \o RunBeforeEsc(Tail(str))

\* Second clusters of the payload-free sequences: SS2 SS3 DCS RIS SOS PM APC ST.
PayloadFree == {Chr.N, Chr.O, Chr.P, Chr.c, Chr.X, Chr.star, Chr.under, BACKSLASH}

\* C11: escape() on a snippet whose first cluster is not ESC returns Text
\* holding the clusters before the first ESC, unmodified, and a consumed
\* length equal to the number of source characters of that run.
C11_TextRun ==
    (Called /\ s # <<>> /\ s[1] # ESC)
    => /\ res.cmd = Text(RunBeforeEsc(s))
       /\ res.len = Len(RunBeforeEsc(s))

\* C12: ESC followed by N, O, P, c, X, *, _ or \ is complete at once:
\* escape() returns ST with consumed length exactly 2, whatever follows.
C12_PayloadFree ==
    (Called /\ Len(s) >= 2 /\ s[1] = ESC /\ s[2] \in PayloadFree /\ AsciiAfter(s, 2))
    => res = [cmd |-> ST, len |-> 2]

\* The SGR attribute list is the fields after the first, each a number or 0,
\* and it is `short` shorter than the field list.
SgrListHolds(short) ==
    (Called /\ IsCsiSequence(s) /\ AsciiAfter(s, CsiLen(s)) /\ s[3] # QMARK
       /\ s[CsiLen(s)] = Chr.m)
    => LET fields == SplitFields(SubSeq(s, 3, CsiLen(s) - 1))
       IN  /\ res.cmd.type = "CSI" /\ res.cmd.kind.op = "SGR"
           /\ res.cmd.kind.m = [i \in 1..(Len(fields) - 1) |-> ValueOr(fields, i + 1, 0)]
           /\ Len(res.cmd.kind.m) = Len(fields) - short

\* C13 as stated: the SGR list holds one entry for every field after the
\* first, in order, 0 for a field that does not parse, and its length is
\* the number of semicolon-delimited fields supplied (checked where the
\* parameter block is not empty, so that at least one field is supplied).
C13_SgrAsStated == CsiLen(s) # 3 => SgrListHolds(0)

\* C13 amended: the SGR list holds one entry for every field after the
\* first, in order, 0 for a field that does not parse, none dropped; its
\* length is the number of semicolon-delimited fields of the parameter block
\* minus one, that is the number of semicolons in it.
C13_SgrList == SgrListHolds(1)

\* ESC [ ; 5 ; m was decoded: three fields, the list <<5, 0>>.
C13_Witness ==
    /\ Called /\ s = <<ESC, LBRACKET, SEMI, 53, SEMI, Chr.m>>
    /\ res.cmd = CSI(Kind2("SGR", 0, <<5, 0>>))

\* C14: escape() on a snippet of exactly two clusters that starts with ESC
\* and whose second cluster is not '>' returns Incomplete with consumed
\* length 0.
C14_TwoClusters ==
    (Called /\ Len(Graphemes(s)) = 2 /\ Graphemes(s)[1] = <<ESC>>
       /\ Graphemes(s)[2] # <<GT>>)
    => res = Pair(Incomplete, 0)

\* ESC m, the snippet of the test incomplete_ansi, was decoded as Incomplete.
C14_Witness ==
    Called /\ s = <<ESC, Chr.m>> /\ res = Pair(Incomplete, 0)

C16_ParseNextReturns == ret # Panic

\* C17: escape("") returns (Incomplete, 0), and every parse_next call on an
\* empty queue, the first or a repeated one, returns Incomplete and leaves
\* the queue empty.
C17_EmptyInput ==
    /\ escape(<<>>) = Pair(Incomplete, 0)
    /\ [][(graphemes = <<>> /\ ret' # NoResult)
            => (ret' = Incomplete /\ graphemes' = <<>>)]_vars

\* parse_next answered Incomplete on an escaper that was never fed.
C17_Witness ==
    fed = <<>> /\ graphemes = <<>> /\ ret = Incomplete

\* The control bytes that are neither body bytes nor terminators of a
\* sequence introduced by `intro`: BEL ends an OSC, ESC opens a lookahead.
Offending(intro) == (0..31) \ (IF intro = RBRACKET THEN {BEL, ESC} ELSE {ESC})

\* str is ESC [ or ESC ] and a body that stops at an offending control byte.
StopsAtOffending(str) ==
    /\ Len(str) >= 3 /\ str[1] = ESC /\ str[2] \in {LBRACKET, RBRACKET}
    /\ LET k == FirstOutside(str, 3, valid_char_ranges(AnsiType_from(<<str[2]>>)))
       IN  k > 0 /\ str[k] \in Offending(str[2])

\* C18: a CSI or OSC body that runs into a byte which is neither a body byte
\* nor a valid final byte or terminator ends as Unknown carrying that byte;
\* an OSC body followed by 0x01 is not decoded as a completed WindowTitle.
C18_OffendingIsUnknown ==
    (Returned /\ StopsAtOffending(s))
    => LET k == FirstOutside(s, 3, valid_char_ranges(AnsiType_from(<<s[2]>>)))
       IN  \/ res.cmd.type = "Unknown" /\ res.cmd.arg = <<s[k]>>
           \/ /\ res.cmd.type \in {"CSI", "OSC"}
              /\ res.cmd.kind.op = "Unknown" /\ res.cmd.kind.arg = <<s[k]>>

\* C19: escape() on a snippet of at least three clusters that starts with ESC
\* and whose second cluster is not one of N O P [ \ ] X * _ c returns the
\* top-level Unknown diagnostic with consumed length exactly 2, whatever
\* follows.
C19_UnknownIntroducer ==
    (Called /\ Len(Graphemes(s)) >= 3 /\ Graphemes(s)[1] = <<ESC>>
       /\ Graphemes(s)[2] \notin {<<c>> : c \in Introducers})
    => res.cmd.type = "Unknown" /\ res.len = 2

\* ESC m a, an unrecognised introducer with a cluster after it, was decoded
\* as Unknown carrying m.
C19_Witness ==
    /\ Called /\ s = <<ESC, Chr.m, 97>>
    /\ res.cmd.type = "Unknown" /\ res.cmd.arg = <<Chr.m>>

RECURSIVE FromEsc(_)
\* The queue from its first ESC cluster on (empty when it holds none).
FromEsc(queue) ==
    IF queue = <<>> \/ Head(queue) = <<ESC>> THEN queue ELSE FromEsc(Tail(queue))

\* C20: a parse_next call on a queue whose first cluster is not ESC returns
\* Text holding all queued clusters before the first ESC (all of them when
\* there is none), in order and unmodified, and leaves exactly the queue
\* from that ESC on.
C20_StreamingText ==
    [][(graphemes # <<>> /\ Head(graphemes) # <<ESC>> /\ ret' # NoResult)
        => (ret' = Text(read_loop(graphemes)) /\ graphemes' = FromEsc(graphemes))]_vars

\* Every call the sink has received is a call of write.
OnlyWrites == \A i \in 1..Len(sink.log) : sink.log[i].method = "write"

\* C21: an iteration of Term::write that finds ESC at the head of the queue
\* has parse_next drop ESC and the introducer and report Incomplete, so the
\* loop ends with no call on the sink; and over any sequence of writes the
\* sink receives no call other than write.
C21_StepStub ==
    /\ [][(term.pc = "loop" /\ term.graphemes # <<>> /\ Head(term.graphemes) = <<ESC>>)
            => /\ term'.pc = "idle"
               /\ term'.graphemes = SubSeq(term.graphemes, 3, Len(term.graphemes))
               /\ sink' = sink]_vars
    /\ []OnlyWrites

\* C22: a Term::write call is over after finitely many iterations of its
\* loop (it returns, or parse() aborts it on a queue that ends at ESC); an
\* iteration after which the loop goes on has dispatched a command and
\* removed at least one cluster from the queue, and the iteration that gets
\* Incomplete calls nothing on the sink and leaves the loop.
C22_WriteTerminates ==
    /\ (term.pc = "loop") ~> (term.pc # "loop")
    /\ [][term.pc = "loop"
            => /\ term'.pc = "loop" => Len(term'.graphemes) < Len(term.graphemes)
               /\ term'.pc = "idle" => sink' = sink
               /\ sink' # sink => term'.pc = "loop"]_vars

\* A write call dispatched a text run, went round the loop again and
\* returned at Incomplete.
C22_Witness ==
    term.pc = "idle" /\ sink.log # <<>> /\ Len(term.graphemes) < Len(term.fed)

\* The column of the cursor: the coordinate cursor_forward and cursor_back move.
ColumnOf(k) == IF cursor_forward(k, 1).x # k.x THEN k.x ELSE k.y

\* The row of the cursor: the coordinate cursor_up and cursor_down move.
RowOf(k) == IF cursor_down(k, 1).y # k.y THEN k.y ELSE k.x

\* C23: cursor_horizontal_absolute(n) sets the column, the coordinate that
\* cursor_forward and cursor_back move, to n and leaves the row unchanged;
\* cursor_vertical_absolute(n) sets the row, the coordinate that cursor_up
\* and cursor_down move, to n and leaves the column unchanged.
C23_AbsoluteMoves ==
    [][sink'.log # sink.log
        => LET c == sink'.log[Len(sink'.log)] IN
           /\ c.method = "cursor_horizontal_absolute"
                => ColumnOf(sink') = c.args[1] /\ RowOf(sink') = RowOf(sink)
           /\ c.method = "cursor_vertical_absolute"
                => RowOf(sink') = c.args[1] /\ ColumnOf(sink') = ColumnOf(sink)]_vars

\* The methods Term::write would call on a fresh sink for the command cmd.
MethodsFor(cmd) ==
    LET log == dispatch(NewSink, cmd).log IN {log[i].method : i \in 1..Len(log)}

\* C24: the decoder never produces HVP: a non-private CSI sequence with final
\* byte f decodes to CUP(n, m), the very result the same parameters give
\* with final byte H, and the match of Term::write, applied to whatever the
\* decoder returns, never calls horizontal_vertical_position.
C24_NeverHvp ==
    /\ (Returned /\ res.cmd.type = "CSI") => res.cmd.kind.op # "HVP"
    /\ Returned => "horizontal_vertical_position" \notin MethodsFor(res.cmd)
    /\ (Called /\ IsCsiSequence(s) /\ s[CsiLen(s)] = Chr.f /\ s[3] # QMARK)
        => /\ res = escape([s EXCEPT ![CsiLen(s)] = Chr.H])
           /\ AsciiAfter(s, CsiLen(s)) => (res.cmd.type = "CSI" /\ res.cmd.kind.op = "CUP")

\* ESC [ 2 ; 5 f was decoded as the cursor-position command CUP(2, 5).
C24_Witness ==
    /\ Called /\ s = <<ESC, LBRACKET, 50, SEMI, 53, Chr.f>>
    /\ res.cmd = CSI(Kind2("CUP", 2, 5))
    /\ MethodsFor(res.cmd) = {"cursor_position"}

\* a is what is left of b after some clusters were taken off its front.
IsSuffix(a, b) == Len(a) <= Len(b) /\ a = SubSeq(b, Len(b) - Len(a) + 1, Len(b))

\* C25: the pending queue is always a suffix of everything fed so far, in
\* feed order; a new_text call appends the clusters it is given at the back
\* and a parse_next call only takes clusters off the front.
C25_QueueIsSuffix ==
    /\ []IsSuffix(graphemes, fed)
    /\ [][(ret' = NoResult
            => /\ Len(fed') >= Len(fed) /\ SubSeq(fed', 1, Len(fed)) = fed
               /\ graphemes' = graphemes \o SubSeq(fed', Len(fed) + 1, Len(fed')))
           /\ (ret' # NoResult
               => fed' = fed /\ IsSuffix(graphemes', graphemes))]_vars

\* parse_next took a text run off the front and left the queue at an ESC.
C25_Witness ==
    /\ ret.type = "Text" /\ graphemes # <<>> /\ Head(graphemes) = <<ESC>>
    /\ Len(graphemes) < Len(fed)

====
